---- MODULE Spec2Model ----
(***************************************************************************)
(* CloudFormation custom resource handler that enables S3 Block Public     *)
(* Access at account level (src/src/lambda_function.py).                   *)
(*                                                                         *)
(* The model follows one or more Lambda execution environments, each       *)
(* running lambda_handler on one event at a time.  The collaborators (STS, *)
(* S3 Control, SNS and the CloudFormation response endpoint) answer        *)
(* nondeterministically: each call either succeeds or raises.  Every       *)
(* external call an invocation makes is appended to its log.  The history  *)
(* variable created holds the accounts for which a Create has ended with   *)
(* SUCCESS.                                                                *)
(***************************************************************************)
EXTENDS Integers, Sequences, FiniteSets, TLC

VARIABLES store, inv, created

vars == <<store, inv, created>>

----------------------------------------------------------------------------
(* Bounds *)

\* number of Lambda execution environments
NumEnvs == 2

Envs == 1..NumEnvs

----------------------------------------------------------------------------
(* Values *)

\* Python's None where a dict (configuration, data, properties) is expected
None == [absent |-> TRUE]

\* Python's None where a string is expected
NoneStr == "None"

Flags == {"BlockPublicAcls", "IgnorePublicAcls", "BlockPublicPolicy", "RestrictPublicBuckets"}

Configs == [Flags -> BOOLEAN]

\* the accounts the identity service can answer with
Accounts == {"123456789012"}

\* context.aws_request_id of an invocation
RequestIds == {"req-1"}

TopicArn == "arn:aws:sns:us-east-1:123456789012:test-topic"

\* values of ResourceProperties.get('NotificationTopicArn')
TopicValues == {NoneStr, "", TopicArn}

\* error codes a botocore ClientError of a collaborator can carry
ClientErrorCodes == {"AccessDenied", "InternalError"}

ClientError(code) ==
    [type |-> "ClientError", Code |-> code, str |-> <<"An error occurred (", code, ")">>]

\* a botocore error that is not a ClientError
EndpointConnectionError ==
    [type |-> "EndpointConnectionError", Code |-> NoneStr,
     str |-> <<"Could not connect to the endpoint URL">>]

\* what a collaborator call can raise
CollaboratorErrors == {ClientError(c) : c \in ClientErrorCodes} \cup {EndpointConnectionError}

KeyError(k) == [type |-> "KeyError", Code |-> NoneStr, str |-> <<"'", k, "'">>]

----------------------------------------------------------------------------
(* Events *)

\* keys lambda_handler and send_response read with event[...]
RequiredKeys == {"RequestType", "StackId", "RequestId", "LogicalResourceId", "ResponseURL"}

RequestTypes == {"Create", "Update", "Delete", "InvalidType"}

\* f"account-bpa-{x}"
FormatPhysicalId(x) == <<"account-bpa-", x>>

\* event has no PhysicalResourceId key
NoPhysicalId == <<>>

\* a Create event carries no PhysicalResourceId; a later event carries the id
\* of the documented form
PhysicalIds == {NoPhysicalId} \cup {FormatPhysicalId(a) : a \in Accounts}

\* the flag values ResourceProperties can carry: none, or those of the Create
\* event of test_embedded_logic.py
PropertyFlags ==
    {None,
     [BlockPublicAcls |-> TRUE, IgnorePublicAcls |-> TRUE,
      BlockPublicPolicy |-> FALSE, RestrictPublicBuckets |-> TRUE]}

PropertiesSet ==
    {None} \cup [NotificationTopicArn : TopicValues, flags : PropertyFlags]

\* events with every required key, or with exactly one of them missing
KeySets == {RequiredKeys} \cup {RequiredKeys \ {k} : k \in RequiredKeys}

Events ==
    [keys : KeySets, RequestType : RequestTypes,
     PhysicalResourceId : PhysicalIds, ResourceProperties : PropertiesSet]

\* an event that carries every field of the custom resource request
WellFormed(event) == event.keys = RequiredKeys

\* event.get('ResourceProperties', {}).get('NotificationTopicArn')
EventTopicArn(event) ==
    IF event.ResourceProperties = None
    THEN NoneStr
    ELSE event.ResourceProperties.NotificationTopicArn

----------------------------------------------------------------------------
(* Pure functions of lambda_function.py *)

\* a successful reply of get_public_access_block that has no
\* PublicAccessBlockConfiguration
NoBody == [nobody |-> TRUE]

\* the configurations a reply can carry: any of the four flags may be left out
PartialConfigs == UNION {[S -> BOOLEAN] : S \in SUBSET Flags}

\* ReplyToConfig that takes a flag the reply leaves out as off
ReplyToConfig_default_false(config) ==
    [f \in Flags |-> IF f \in DOMAIN config THEN config[f] ELSE FALSE]

\* the dict get_current_bpa_config builds from the configuration of a reply
ReplyToConfig(config) ==
    [f \in Flags |-> IF f \in DOMAIN config THEN config[f] ELSE TRUE]

\* the store's answer to get_public_access_block while it holds this value
GetPublicAccessBlock(held) ==
    IF held = None
    THEN ClientError("NoSuchPublicAccessBlockConfiguration")
    ELSE IF held = NoBody
    THEN [type |-> "response"]
    ELSE [type |-> "response", PublicAccessBlockConfiguration |-> held]

\* get_current_bpa_config that lets every ClientError through
get_current_bpa_config_raise_all(answer) ==
    IF answer.type = "response"
    THEN [raised |-> FALSE,
          value |-> IF "PublicAccessBlockConfiguration" \in DOMAIN answer
                    THEN ReplyToConfig(answer.PublicAccessBlockConfiguration)
                    ELSE ReplyToConfig(<<>>)]
    ELSE [raised |-> TRUE, value |-> answer]

\* get_current_bpa_config on the answer of get_public_access_block: the value
\* it returns, or the exception it lets through
get_current_bpa_config(answer) ==
    IF answer.type = "response"
    THEN [raised |-> FALSE,
          value |-> IF "PublicAccessBlockConfiguration" \in DOMAIN answer
                    THEN ReplyToConfig(answer.PublicAccessBlockConfiguration)
                    ELSE ReplyToConfig(<<>>)]
    ELSE IF answer.type = "ClientError"
            /\ answer.Code = "NoSuchPublicAccessBlockConfiguration"
    THEN [raised |-> FALSE, value |-> None]
    ELSE [raised |-> TRUE, value |-> answer]

\* configs_equal with the last comparison inverted
configs_equal_inverted(current, desired) ==
    IF current = None
    THEN FALSE
    ELSE /\ current["BlockPublicAcls"] = desired["BlockPublicAcls"]
         /\ current["IgnorePublicAcls"] = desired["IgnorePublicAcls"]
         /\ current["BlockPublicPolicy"] = desired["BlockPublicPolicy"]
         /\ current["RestrictPublicBuckets"] # desired["RestrictPublicBuckets"]

\* configs_equal that leaves out the RestrictPublicBuckets comparison
configs_equal_three(current, desired) ==
    IF current = None
    THEN FALSE
    ELSE /\ current["BlockPublicAcls"] = desired["BlockPublicAcls"]
         /\ current["IgnorePublicAcls"] = desired["IgnorePublicAcls"]
         /\ current["BlockPublicPolicy"] = desired["BlockPublicPolicy"]

configs_equal(current, desired) ==
    IF current = None
    THEN FALSE
    ELSE /\ current["BlockPublicAcls"] = desired["BlockPublicAcls"]
         /\ current["IgnorePublicAcls"] = desired["IgnorePublicAcls"]
         /\ current["BlockPublicPolicy"] = desired["BlockPublicPolicy"]
         /\ current["RestrictPublicBuckets"] = desired["RestrictPublicBuckets"]

\* get_desired_config that leaves BlockPublicPolicy off
get_desired_config_partial ==
    [BlockPublicAcls |-> TRUE,
     IgnorePublicAcls |-> TRUE,
     BlockPublicPolicy |-> FALSE,
     RestrictPublicBuckets |-> TRUE]

\* get_desired_config()
get_desired_config ==
    [BlockPublicAcls |-> TRUE, IgnorePublicAcls |-> TRUE,
     BlockPublicPolicy |-> TRUE, RestrictPublicBuckets |-> TRUE]

\* `if not topic_arn` of send_sns_notification
Truthy(topic_arn) == topic_arn \notin {NoneStr, ""}

\* the response body send_response serialises
ResponseBody(event, aws_request_id, status, reason, data) ==
    LET physical == IF event.PhysicalResourceId = NoPhysicalId
                    THEN FormatPhysicalId(aws_request_id)
                    ELSE event.PhysicalResourceId
    IN  IF data = None
        THEN [Status |-> status, Reason |-> reason, PhysicalResourceId |-> physical]
        ELSE [Status |-> status, Reason |-> reason, PhysicalResourceId |-> physical,
              Data |-> data]

\* data of a Create response
CreateData(final_config, config_changed) ==
    [BlockPublicAcls |-> final_config["BlockPublicAcls"],
     IgnorePublicAcls |-> final_config["IgnorePublicAcls"],
     BlockPublicPolicy |-> final_config["BlockPublicPolicy"],
     RestrictPublicBuckets |-> final_config["RestrictPublicBuckets"],
     ConfigurationChanged |-> config_changed,
     Timestamp |-> "utcnow"]

\* ClientErrorReason that tests for another spelling of the error code
ClientErrorReason_othercode(error_code) ==
    IF error_code = "AccessDeniedException"
    THEN <<"Insufficient permissions", " to modify S3 Block Public Access settings">>
    ELSE <<"AWS API error: ", error_code>>

\* reason of the except ClientError clause
ClientErrorReason(error_code) ==
    IF error_code = "AccessDenied"
    THEN <<"Insufficient permissions", " to modify S3 Block Public Access settings">>
    ELSE <<"AWS API error: ", error_code>>

\* reason of the except Exception clause
InternalErrorReason(e) == <<"Internal error", ": ">> \o e.str

ValueError(request_type) ==
    [type |-> "ValueError", Code |-> NoneStr,
     str |-> <<"Unsupported request type", ": ", request_type>>]

----------------------------------------------------------------------------
(* State of one invocation *)

Idle ==
    [pc |-> "idle", event |-> None, aws_request_id |-> NoneStr,
     account_id |-> NoneStr, current_config |-> None,
     in_except |-> FALSE, subject |-> NoneStr, topic_arn |-> NoneStr,
     status |-> NoneStr, reason |-> <<>>, data |-> None,
     log |-> <<>>, before |-> None, after_create |-> {}]

Init ==
    /\ store \in [Accounts -> Configs \cup {None}]
    /\ inv = [i \in Envs |-> Idle]
    /\ created = {}

\* Catch without the except Exception clause
Catch_client_only(s, e) ==
    IF s.in_except \/ e.type # "ClientError"
    THEN [s EXCEPT !.pc = "raised"]
    ELSE [s EXCEPT !.pc = "send_sns_notification",
                   !.in_except = TRUE,
                   !.topic_arn = EventTopicArn(s.event),
                   !.subject = "S3 Block Public Access - Configuration Failed",
                   !.status = "FAILED",
                   !.reason = ClientErrorReason(e.Code),
                   !.data = None]

\* Catch with the except Exception clause before the except ClientError clause
Catch_generic_first(s, e) ==
    IF s.in_except
    THEN [s EXCEPT !.pc = "raised"]
    ELSE [s EXCEPT !.pc = "send_sns_notification",
                   !.in_except = TRUE,
                   !.topic_arn = EventTopicArn(s.event),
                   !.subject = "S3 Block Public Access - Internal Error",
                   !.status = "FAILED",
                   !.reason = InternalErrorReason(e),
                   !.data = None]

\* the state of invocation s once lambda_handler's except clauses caught e;
\* an exception raised inside an except clause leaves the handler
Catch(s, e) ==
    IF s.in_except
    THEN [s EXCEPT !.pc = "raised"]
    ELSE IF e.type = "ClientError"
    THEN [s EXCEPT !.pc = "send_sns_notification",
                   !.in_except = TRUE,
                   !.topic_arn = EventTopicArn(s.event),
                   !.subject = "S3 Block Public Access - Configuration Failed",
                   !.status = "FAILED",
                   !.reason = ClientErrorReason(e.Code),
                   !.data = None]
    ELSE [s EXCEPT !.pc = "send_sns_notification",
                   !.in_except = TRUE,
                   !.topic_arn = EventTopicArn(s.event),
                   !.subject = "S3 Block Public Access - Internal Error",
                   !.status = "FAILED",
                   !.reason = InternalErrorReason(e),
                   !.data = None]

\* the state of invocation s after an external call was made
Logged(s, op, ok, body) ==
    [s EXCEPT !.log = Append(s.log, [op |-> op, ok |-> ok, body |-> body])]

\* the success branch of handle_create from the data dict to send_sns_notification
CreateSucceeds(s, final_config, config_changed, message) ==
    [s EXCEPT !.pc = "send_sns_notification",
              !.subject = "S3 Block Public Access - Configuration Applied",
              !.status = "SUCCESS",
              !.reason = <<message>>,
              !.data = CreateData(final_config, config_changed)]

----------------------------------------------------------------------------
(* Actions *)

\* the SUCCESS response of the Update and Delete branch
NoAction(s, request_type) ==
    [s EXCEPT !.pc = "send_response",
              !.status = "SUCCESS",
              !.reason = <<request_type, " operation completed">>,
              !.data = [Message |-> <<request_type,
                            " operation completed - no changes made">>,
                        Timestamp |-> "utcnow"]]

\* Dispatch whose second branch tests for Update only
Dispatch_update_only(s, request_type) ==
    IF request_type = "Create"
    THEN [s EXCEPT !.pc = "get_account_id"]
    ELSE IF request_type \in {"Update"}
    THEN NoAction(s, request_type)
    ELSE Catch(s, ValueError(request_type))

\* Dispatch that sends Update to handle_create
Dispatch_update_creates(s, request_type) ==
    IF request_type \in {"Create", "Update"}
    THEN [s EXCEPT !.pc = "get_account_id"]
    ELSE IF request_type \in {"Delete"}
    THEN NoAction(s, request_type)
    ELSE Catch(s, ValueError(request_type))

\* Dispatch whose second branch takes every other request type
Dispatch_no_else(s, request_type) ==
    IF request_type = "Create"
    THEN [s EXCEPT !.pc = "get_account_id"]
    ELSE NoAction(s, request_type)

\* lambda_handler's dispatch on the request type, for an invocation s that
\* has entered the try block
Dispatch(s, request_type) ==
    IF request_type = "Create"
    THEN [s EXCEPT !.pc = "get_account_id"]
    ELSE IF request_type \in {"Update", "Delete"}
    THEN NoAction(s, request_type)
    ELSE Catch(s, ValueError(request_type))

\* lambda_handler is entered with an event; event['RequestType'] is first
\* read before the try block
LambdaHandler(i, events) ==
    /\ inv[i].pc = "idle"
    /\ \E event \in events, rid \in RequestIds :
         LET s == [Idle EXCEPT !.event = event, !.aws_request_id = rid,
                               !.before = store,
                               !.after_create = created,
                               !.topic_arn = EventTopicArn(event)]
         IN  inv' = [inv EXCEPT ![i] =
                 IF "RequestType" \notin event.keys
                 THEN [s EXCEPT !.pc = "raised"]
                 ELSE Dispatch(s, event.RequestType)]
    /\ UNCHANGED <<store, created>>

\* handle_create: account_id = get_account_id()
GetAccountId(i) ==
    /\ inv[i].pc = "get_account_id"
    /\ \/ \E a \in Accounts :
            inv' = [inv EXCEPT ![i] =
                [Logged(inv[i], "sts", TRUE, [Account |-> a])
                    EXCEPT !.pc = "get_current_bpa_config", !.account_id = a]]
       \/ \E e \in CollaboratorErrors :
            inv' = [inv EXCEPT ![i] =
                Catch(Logged(inv[i], "sts", FALSE, [Error |-> e]), e)]
    /\ UNCHANGED <<store, created>>

\* GetCurrentBpaConfig that takes a failed fetch as "not configured"
GetCurrentBpaConfig_continues(i) ==
    /\ inv[i].pc = "get_current_bpa_config"
    /\ \E answer \in {GetPublicAccessBlock(store[inv[i].account_id])} \cup CollaboratorErrors :
         LET result == get_current_bpa_config(answer)
             current_config == result.value
             s == [Logged(inv[i], "get", TRUE, [Config |-> current_config])
                      EXCEPT !.current_config = current_config]
         IN  inv' = [inv EXCEPT ![i] =
                 IF result.raised
                 THEN [Logged(inv[i], "get", FALSE, [Error |-> result.value])
                          EXCEPT !.current_config = None, !.pc = "apply_bpa_config"]
                 ELSE IF configs_equal(current_config, get_desired_config)
                 THEN CreateSucceeds(s, current_config, FALSE,
                          "S3 Block Public Access already fully enabled at account level")
                 ELSE [s EXCEPT !.pc = "apply_bpa_config"]]
    /\ UNCHANGED <<store, created>>

\* handle_create: current_config = get_current_bpa_config(account_id), then
\* the configs_equal branch
GetCurrentBpaConfig(i) ==
    /\ inv[i].pc = "get_current_bpa_config"
    /\ \E answer \in {GetPublicAccessBlock(store[inv[i].account_id])} \cup CollaboratorErrors :
         LET result == get_current_bpa_config(answer)
             current_config == result.value
             s == [Logged(inv[i], "get", TRUE, [Config |-> current_config])
                      EXCEPT !.current_config = current_config]
         IN  inv' = [inv EXCEPT ![i] =
                 IF result.raised
                 THEN Catch(Logged(inv[i], "get", FALSE, [Error |-> result.value]),
                            result.value)
                 ELSE IF configs_equal(current_config, get_desired_config)
                 THEN CreateSucceeds(s, current_config, FALSE,
                          "S3 Block Public Access already fully enabled at account level")
                 ELSE [s EXCEPT !.pc = "apply_bpa_config"]]
    /\ UNCHANGED <<store, created>>

\* the flags of ResourceProperties, each one it lacks taken as TRUE
ConfigOfProperties(event) ==
    IF event.ResourceProperties = None
    THEN get_desired_config
    ELSE IF event.ResourceProperties.flags = None
    THEN get_desired_config
    ELSE [f \in Flags |-> event.ResourceProperties.flags[f]]

\* ApplyBpaConfig that writes the flags of ResourceProperties
ApplyBpaConfig_from_properties(i) ==
    /\ inv[i].pc = "apply_bpa_config"
    /\ \/ /\ store' = [store EXCEPT ![inv[i].account_id] = ConfigOfProperties(inv[i].event)]
          /\ inv' = [inv EXCEPT ![i] =
                 CreateSucceeds(
                     Logged(inv[i], "put", TRUE,
                            [Config |-> ConfigOfProperties(inv[i].event)]),
                     ConfigOfProperties(inv[i].event), TRUE,
                     "S3 Block Public Access fully enabled at account level")]
       \/ /\ \E e \in CollaboratorErrors :
               inv' = [inv EXCEPT ![i] =
                   Catch(Logged(inv[i], "put", FALSE,
                         [Config |-> ConfigOfProperties(inv[i].event), Error |-> e]), e)]
          /\ UNCHANGED store
    /\ UNCHANGED created

\* ApplyBpaConfig that tries the put a second time after it failed
ApplyBpaConfig_retry(i) ==
    /\ inv[i].pc = "apply_bpa_config"
    /\ \/ /\ store' = [store EXCEPT ![inv[i].account_id] = get_desired_config]
          /\ inv' = [inv EXCEPT ![i] =
                 CreateSucceeds(
                     Logged(inv[i], "put", TRUE, [Config |-> get_desired_config]),
                     get_desired_config, TRUE,
                     "S3 Block Public Access fully enabled at account level")]
       \/ /\ \E e \in CollaboratorErrors :
               inv' = [inv EXCEPT ![i] =
                   IF \E k \in DOMAIN inv[i].log : inv[i].log[k].op = "put"
                   THEN Catch(Logged(inv[i], "put", FALSE,
                              [Config |-> get_desired_config, Error |-> e]), e)
                   ELSE Logged(inv[i], "put", FALSE,
                               [Config |-> get_desired_config, Error |-> e])]
          /\ UNCHANGED store
    /\ UNCHANGED created

\* ApplyBpaConfig whose put can raise after it reached the store
ApplyBpaConfig_fails_after_write(i) ==
    /\ inv[i].pc = "apply_bpa_config"
    /\ store' = [store EXCEPT ![inv[i].account_id] = get_desired_config]
    /\ \/ inv' = [inv EXCEPT ![i] =
              CreateSucceeds(
                  Logged(inv[i], "put", TRUE, [Config |-> get_desired_config]),
                  get_desired_config, TRUE,
                  "S3 Block Public Access fully enabled at account level")]
       \/ \E e \in CollaboratorErrors :
            inv' = [inv EXCEPT ![i] =
                Catch(Logged(inv[i], "put", FALSE,
                         [Config |-> get_desired_config, Error |-> e]), e)]
    /\ UNCHANGED created

\* ApplyBpaConfig whose put does not reach the store
ApplyBpaConfig_nowrite(i) ==
    /\ inv[i].pc = "apply_bpa_config"
    /\ \/ inv' = [inv EXCEPT ![i] =
              CreateSucceeds(
                  Logged(inv[i], "put", TRUE, [Config |-> get_desired_config]),
                  get_desired_config, TRUE,
                  "S3 Block Public Access fully enabled at account level")]
       \/ \E e \in CollaboratorErrors :
            inv' = [inv EXCEPT ![i] =
                Catch(Logged(inv[i], "put", FALSE,
                         [Config |-> get_desired_config, Error |-> e]), e)]
    /\ UNCHANGED <<store, created>>

\* handle_create: final_config = apply_bpa_config(desired_config, account_id)
ApplyBpaConfig(i) ==
    /\ inv[i].pc = "apply_bpa_config"
    /\ \/ /\ store' = [store EXCEPT ![inv[i].account_id] = get_desired_config]
          /\ inv' = [inv EXCEPT ![i] =
                 CreateSucceeds(
                     Logged(inv[i], "put", TRUE, [Config |-> get_desired_config]),
                     get_desired_config, TRUE,
                     "S3 Block Public Access fully enabled at account level")]
       \/ /\ \E e \in CollaboratorErrors :
               inv' = [inv EXCEPT ![i] =
                   Catch(Logged(inv[i], "put", FALSE,
                         [Config |-> get_desired_config, Error |-> e]), e)]
          /\ UNCHANGED store
    /\ UNCHANGED created

\* SendSnsNotification called after send_response instead of before it
SendSnsNotification_after_response(i) ==
    /\ inv[i].pc = "send_sns_notification"
    /\ IF ~Truthy(inv[i].topic_arn)
       THEN inv' = [inv EXCEPT ![i].pc = "send_response"]
       ELSE \E sent, ok \in BOOLEAN :
              inv' = [inv EXCEPT ![i] =
                  [Logged(Logged(inv[i], "http", sent,
                                 ResponseBody(inv[i].event, inv[i].aws_request_id,
                                              inv[i].status, inv[i].reason, inv[i].data)),
                          "sns", ok,
                          [TopicArn |-> inv[i].topic_arn, Subject |-> inv[i].subject])
                      EXCEPT !.pc = "done"]]
    /\ UNCHANGED <<store, created>>

\* SendSnsNotification without the try around publish
SendSnsNotification_raises(i) ==
    /\ inv[i].pc = "send_sns_notification"
    /\ IF ~Truthy(inv[i].topic_arn)
       THEN inv' = [inv EXCEPT ![i].pc = "send_response"]
       ELSE LET s == Logged(inv[i], "sns", TRUE,
                            [TopicArn |-> inv[i].topic_arn, Subject |-> inv[i].subject])
                f == Logged(inv[i], "sns", FALSE,
                            [TopicArn |-> inv[i].topic_arn, Subject |-> inv[i].subject])
            IN  \/ inv' = [inv EXCEPT ![i] = [s EXCEPT !.pc = "send_response"]]
                \/ \E e \in CollaboratorErrors : inv' = [inv EXCEPT ![i] = Catch(f, e)]
    /\ UNCHANGED <<store, created>>

\* send_sns_notification(topic_arn, subject, message)
SendSnsNotification(i) ==
    /\ inv[i].pc = "send_sns_notification"
    /\ IF ~Truthy(inv[i].topic_arn)
       THEN inv' = [inv EXCEPT ![i].pc = "send_response"]
       ELSE \E ok \in BOOLEAN :
              inv' = [inv EXCEPT ![i] =
                  [Logged(inv[i], "sns", ok,
                          [TopicArn |-> inv[i].topic_arn, Subject |-> inv[i].subject])
                      EXCEPT !.pc = "send_response"]]
    /\ UNCHANGED <<store, created>>

\* the keys send_response reads with event[...], in the order it reads them
ResponseKeys == <<"StackId", "RequestId", "LogicalResourceId", "ResponseURL">>

\* the accounts for which a Create has ended with SUCCESS, once invocation s
\* has taken its step
Created(s) ==
    IF s.pc = "done" /\ s.event.RequestType = "Create" /\ s.status = "SUCCESS"
    THEN created \cup {s.account_id}
    ELSE created

\* SendResponse without the try around the PUT
SendResponse_raises(i) ==
    /\ inv[i].pc = "send_response"
    /\ LET missing == {k \in 1..Len(ResponseKeys) : ResponseKeys[k] \notin inv[i].event.keys}
           sent(ok) == Logged(inv[i], "http", ok,
                              ResponseBody(inv[i].event, inv[i].aws_request_id,
                                           inv[i].status, inv[i].reason, inv[i].data))
       IN  IF missing # {}
           THEN LET first == CHOOSE k \in missing : \A m \in missing : k <= m
                IN  inv' = [inv EXCEPT ![i] = Catch(inv[i], KeyError(ResponseKeys[first]))]
           ELSE \/ inv' = [inv EXCEPT ![i] = [sent(TRUE) EXCEPT !.pc = "done"]]
                \/ inv' = [inv EXCEPT ![i] = Catch(sent(FALSE), EndpointConnectionError)]
    /\ created' = Created(inv'[i])
    /\ UNCHANGED store

\* send_response(event, context, status, reason, data)
SendResponse(i) ==
    /\ inv[i].pc = "send_response"
    /\ LET missing == {k \in 1..Len(ResponseKeys) : ResponseKeys[k] \notin inv[i].event.keys}
       IN  IF missing # {}
           THEN LET first == CHOOSE k \in missing : \A m \in missing : k <= m
                IN  inv' = [inv EXCEPT ![i] = Catch(inv[i], KeyError(ResponseKeys[first]))]
           ELSE \E ok \in BOOLEAN :
                  inv' = [inv EXCEPT ![i] =
                      [Logged(inv[i], "http", ok,
                              ResponseBody(inv[i].event, inv[i].aws_request_id,
                                           inv[i].status, inv[i].reason, inv[i].data))
                          EXCEPT !.pc = "done"]]
    /\ created' = Created(inv'[i])
    /\ UNCHANGED store

\* lambda_handler has returned or raised; the environment takes the next event
Return(i) ==
    /\ inv[i].pc \in {"done", "raised"}
    /\ inv' = [inv EXCEPT ![i] = Idle]
    /\ UNCHANGED <<store, created>>

\* one step of a running invocation
Step(i) ==
    \/ GetAccountId(i)
    \/ GetCurrentBpaConfig(i)
    \/ ApplyBpaConfig(i)
    \/ SendSnsNotification(i)
    \/ SendResponse(i)

\* invocations are serialised: an event is taken only when no invocation runs
Invoke(i) ==
    /\ \A j \in Envs : inv[j].pc = "idle"
    /\ LambdaHandler(i, Events)

Next ==
    \E i \in Envs :
        \/ Invoke(i)
        \/ Step(i)
        \/ Return(i)

Spec == Init /\ [][Next]_vars

\* a running invocation is not suspended for ever
FairSpec == Spec /\ \A i \in Envs : WF_vars(Step(i))

----------------------------------------------------------------------------
(* Two invocations running at the same time *)

\* the two invocations that run concurrently
Pair == {1, 2}

\* Create events with every required field, with and without a topic
ConcEvents ==
    {e \in Events :
        /\ WellFormed(e)
        /\ e.RequestType = "Create"
        /\ e.PhysicalResourceId = NoPhysicalId
        /\ e.ResourceProperties \in
              {None, [NotificationTopicArn |-> TopicArn, flags |-> None]}}

\* an invocation starts whatever the other one is doing
InvokeConc(i) == LambdaHandler(i, ConcEvents)

NextConc ==
    \E i \in Pair :
        \/ InvokeConc(i)
        \/ Step(i)

SpecConc == Init /\ [][NextConc]_vars

----------------------------------------------------------------------------
(* A store whose replies leave flags out *)

\* the store answers with any subset of the four flags, with no
\* configuration body, or with NoSuchPublicAccessBlockConfiguration
InitReply ==
    /\ store \in [Accounts -> PartialConfigs \cup {None, NoBody}]
    /\ inv = [i \in Envs |-> Idle]
    /\ created = {}

SpecReply == InitReply /\ [][Next]_vars

----------------------------------------------------------------------------
(* Vocabulary of the properties *)

\* invocation i has taken an event
Started(i) == inv[i].pc # "idle"

\* invocation i handles an event with every required field and this RequestType
Handles(i, request_types) ==
    /\ Started(i)
    /\ WellFormed(inv[i].event)
    /\ inv[i].event.RequestType \in request_types

\* positions in the log of invocation i of the calls to a collaborator
Calls(i, op) == {k \in DOMAIN inv[i].log : inv[i].log[k].op = op}

Succeeded(i, op) == {k \in Calls(i, op) : inv[i].log[k].ok}

Failed(i, op) == {k \in Calls(i, op) : ~inv[i].log[k].ok}

\* the bodies invocation i has PUT to the ResponseURL
Responses(i) == {inv[i].log[k].body : k \in Calls(i, "http")}

AllTrue(config) == config # None /\ \A f \in Flags : config[f]

\* the text occurs in the reason
Contains(reason, text) == \E k \in DOMAIN reason : reason[k] = text

\* the fetch of invocation i succeeded and returned a value in this set
Fetched(i, results) ==
    \E k \in Succeeded(i, "get") : inv[i].log[k].body.Config \in results

\* invocation i has returned after exactly one callback PUT, the last call it made
Responded(i) ==
    /\ inv[i].pc = "done"
    /\ Cardinality(Calls(i, "http")) = 1
    /\ Len(inv[i].log) \in Calls(i, "http")

\* the response of an invocation that has responded
Response(i) == inv[i].log[Len(inv[i].log)].body

----------------------------------------------------------------------------
(* Properties *)

\* C1: every configuration with all four flags true equals the desired one,
\* and a Create whose identity lookup and fetch succeed and whose fetch
\* returns such a configuration does not raise and, once returned, has sent
\* one SUCCESS response with Data.ConfigurationChanged = FALSE.
C1_AllTrueIsUnchanged ==
    /\ \A c \in Configs : AllTrue(c) => configs_equal(c, get_desired_config)
    /\ \A i \in Envs :
         (Handles(i, {"Create"}) /\ Fetched(i, {c \in Configs : AllTrue(c)})) =>
            /\ inv[i].pc \in {"send_sns_notification", "send_response", "done"}
            /\ Succeeded(i, "sts") # {}
            /\ inv[i].pc = "done" =>
                 /\ Responded(i)
                 /\ Response(i).Status = "SUCCESS"
                 /\ Response(i).Data.ConfigurationChanged = FALSE

C1_Witness ==
    \E i \in Envs :
        /\ Handles(i, {"Create"})
        /\ Fetched(i, {c \in Configs : AllTrue(c)})
        /\ Responded(i)
        /\ Response(i).Data.ConfigurationChanged = FALSE

\* C2: a Create whose identity lookup and fetch succeed, whose fetch returns
\* absent or a configuration with some flag false, and whose apply does not
\* fail, has, once returned, written the desired configuration exactly once
\* and sent one SUCCESS response whose Data has ConfigurationChanged = TRUE
\* and all four flags TRUE.
C2_NotAllTrueIsApplied ==
    \A i \in Envs :
        (/\ Handles(i, {"Create"})
         /\ Fetched(i, {c \in Configs \cup {None} : ~AllTrue(c)})
         /\ Failed(i, "put") = {}) =>
            /\ inv[i].pc \in {"apply_bpa_config", "send_sns_notification",
                              "send_response", "done"}
            /\ inv[i].pc = "done" =>
                 /\ Cardinality(Calls(i, "put")) = 1
                 /\ \A k \in Calls(i, "put") :
                        inv[i].log[k].body.Config = get_desired_config
                 /\ store[inv[i].account_id] = get_desired_config
                 /\ Responded(i)
                 /\ Response(i).Status = "SUCCESS"
                 /\ Response(i).Data.ConfigurationChanged = TRUE
                 /\ \A f \in Flags : Response(i).Data[f] = TRUE

C2_Witness ==
    \E i \in Envs :
        /\ Handles(i, {"Create"})
        /\ Fetched(i, {c \in Configs : ~c["RestrictPublicBuckets"]})
        /\ inv[i].before[inv[i].account_id] # get_desired_config
        /\ Succeeded(i, "put") # {}
        /\ Responded(i)
        /\ Response(i).Data.ConfigurationChanged = TRUE

\* C3: an Update or Delete, whatever its ResourceProperties, goes straight to
\* the callback and, once returned, has sent one response, with Status SUCCESS.
C3_UpdateDeleteSucceed ==
    \A i \in Envs :
        Handles(i, {"Update", "Delete"}) =>
            /\ inv[i].pc \in {"send_response", "done"}
            /\ \A r \in Responses(i) : r.Status = "SUCCESS"
            /\ inv[i].pc = "done" => Responded(i)

C3_Witness ==
    \E i \in Envs :
        /\ Handles(i, {"Delete"})
        /\ inv[i].event.ResourceProperties # None
        /\ Responded(i)
        /\ Response(i).Status = "SUCCESS"

\* C4: an Update or Delete makes no call to the identity service, the store
\* or the notification service, and the store's configuration stays what it
\* was when the invocation began.
C4_UpdateDeleteNoAction ==
    \A i \in Envs :
        Handles(i, {"Update", "Delete"}) =>
            /\ \A k \in DOMAIN inv[i].log : inv[i].log[k].op = "http"
            /\ store = inv[i].before

C4_Witness ==
    \E i \in Envs :
        /\ Handles(i, {"Update"})
        /\ Truthy(inv[i].topic_arn)
        /\ \E a \in Accounts : ~AllTrue(store[a])
        /\ Responded(i)

\* C5: an event whose RequestType is none of Create, Update and Delete makes
\* no read or write of the store and, once returned, has sent one response,
\* with Status FAILED and a Reason containing "Unsupported request type".
C5_UnsupportedRequestType ==
    \A i \in Envs :
        Handles(i, RequestTypes \ {"Create", "Update", "Delete"}) =>
            /\ inv[i].pc \in {"send_sns_notification", "send_response", "done"}
            /\ Calls(i, "get") = {}
            /\ Calls(i, "put") = {}
            /\ store = inv[i].before
            /\ inv[i].pc = "done" =>
                 /\ Responded(i)
                 /\ Response(i).Status = "FAILED"
                 /\ Contains(Response(i).Reason, "Unsupported request type")

C5_Witness ==
    \E i \in Envs :
        /\ Handles(i, {"InvalidType"})
        /\ Responded(i)
        /\ Response(i).Status = "FAILED"

\* the fetch or the apply of invocation i failed with provider code AccessDenied
PermissionDenied(i) ==
    \E k \in Failed(i, "get") \cup Failed(i, "put") :
        /\ inv[i].log[k].body.Error.type = "ClientError"
        /\ inv[i].log[k].body.Error.Code = "AccessDenied"

\* the publish calls of invocation i that carry the failure subject
FailureNotifications(i) ==
    {k \in Calls(i, "sns") :
        inv[i].log[k].body.Subject = "S3 Block Public Access - Configuration Failed"}

\* C6: after fetch or apply fails with AccessDenied in a Create, the publish
\* calls made are one failure notification when ResourceProperties carries a
\* non-empty NotificationTopicArn and none otherwise, and the one response
\* sent is FAILED with a Reason containing "Insufficient permissions".
C6_PermissionFailure ==
    \A i \in Envs :
        (Handles(i, {"Create"}) /\ PermissionDenied(i)) =>
            /\ inv[i].pc \in {"send_sns_notification", "send_response", "done"}
            /\ inv[i].pc \in {"send_response", "done"} =>
                 /\ Calls(i, "sns") = FailureNotifications(i)
                 /\ Cardinality(FailureNotifications(i)) =
                        IF Truthy(EventTopicArn(inv[i].event)) THEN 1 ELSE 0
            /\ inv[i].pc = "done" =>
                 /\ Responded(i)
                 /\ Response(i).Status = "FAILED"
                 /\ Contains(Response(i).Reason, "Insufficient permissions")

C6_Witness ==
    \E i \in Envs :
        /\ Handles(i, {"Create"})
        /\ PermissionDenied(i)
        /\ Failed(i, "put") # {}
        /\ Cardinality(FailureNotifications(i)) = 1
        /\ Responded(i)

\* C7: every response carries the PhysicalResourceId account-bpa-<accountId>
\* of the target account.
C7_PhysicalResourceIdOfAccount ==
    \A i \in Envs :
        \A r \in Responses(i) :
            r.PhysicalResourceId \in {FormatPhysicalId(a) : a \in Accounts}

\* C8: an invocation on an event carrying the required fields never leaves
\* lambda_handler by an exception, whatever the request type and whichever
\* collaborator calls fail, and it eventually returns with a callback PUT as
\* the last call it made.
C8_AlwaysResponds ==
    /\ [](\A i \in Envs : Handles(i, RequestTypes) => inv[i].pc # "raised")
    /\ \A i \in Envs : Handles(i, RequestTypes) ~> Responded(i)

C8_Witness ==
    \E i \in Envs :
        /\ Handles(i, {"Create"})
        /\ \E k \in Failed(i, "sts") : inv[i].log[k].body.Error.type # "ClientError"
        /\ Failed(i, "sns") # {}
        /\ Failed(i, "http") # {}
        /\ Responded(i)

\* the calls of invocation i to the identity service or the store that failed
FailedSteps(i) == Failed(i, "sts") \cup Failed(i, "get") \cup Failed(i, "put")

\* C9: send_sns_notification always returns to its caller and leaves the
\* pending Status, Reason and Data and the store as they were, whether the
\* publish succeeds or fails; the response of a Create is SUCCESS exactly
\* when no identity, fetch or apply call failed and reports
\* ConfigurationChanged exactly when the write was made, whatever became of
\* the publish.
C9_NotificationNeverChangesOutcome ==
    /\ [][\A i \in Envs :
            (inv[i].pc = "send_sns_notification" /\ inv'[i] # inv[i]) =>
                /\ inv'[i].pc = "send_response"
                /\ inv'[i].status = inv[i].status
                /\ inv'[i].reason = inv[i].reason
                /\ inv'[i].data = inv[i].data
                /\ store' = store]_vars
    /\ [](\A i \in Envs :
            (Handles(i, {"Create"}) /\ inv[i].pc = "done") =>
                /\ Responded(i)
                /\ Response(i).Status = "SUCCESS" <=> FailedSteps(i) = {}
                /\ Response(i).Status = "SUCCESS" =>
                     (Response(i).Data.ConfigurationChanged <=> Succeeded(i, "put") # {}))

C9_Witness ==
    \E i \in Envs :
        /\ Handles(i, {"Create"})
        /\ Succeeded(i, "put") # {}
        /\ Failed(i, "sns") # {}
        /\ Responded(i)
        /\ Response(i).Status = "SUCCESS"

\* C10: a failed callback PUT is the last call of its invocation and the only
\* PUT; the invocation has returned, its outcome is still the Status that was
\* sent, and no notification other than the success notification of a
\* SUCCESS outcome has been published.
C10_CallbackFailureIsFinal ==
    \A i \in Envs :
        \A k \in Failed(i, "http") :
            /\ k = Len(inv[i].log)
            /\ Calls(i, "http") = {k}
            /\ inv[i].pc = "done"
            /\ inv[i].status = inv[i].log[k].body.Status
            /\ inv[i].log[k].body.Status = "SUCCESS" =>
                 \A n \in Calls(i, "sns") :
                     inv[i].log[n].body.Subject =
                         "S3 Block Public Access - Configuration Applied"

C10_Witness ==
    \E i \in Envs :
        /\ Handles(i, {"Create"})
        /\ Failed(i, "http") # {}
        /\ Succeeded(i, "sns") # {}
        /\ inv[i].pc = "done"
        /\ inv[i].status = "SUCCESS"

\* no call of invocation i to a collaborator has failed
NoFailure(i) == \A k \in DOMAIN inv[i].log : inv[i].log[k].ok

\* C11: a Create for an account for which an earlier Create has ended with
\* SUCCESS, none of whose calls fails, makes no write, leaves the store as it
\* found it and, once returned, has sent one SUCCESS response with
\* Data.ConfigurationChanged = FALSE.
C11_CreateIdempotent ==
    \A i \in Envs :
        (/\ Handles(i, {"Create"})
         /\ inv[i].account_id \in inv[i].after_create
         /\ NoFailure(i)) =>
            /\ inv[i].pc # "apply_bpa_config"
            /\ Calls(i, "put") = {}
            /\ store = inv[i].before
            /\ inv[i].pc = "done" =>
                 /\ Responded(i)
                 /\ Response(i).Status = "SUCCESS"
                 /\ Response(i).Data.ConfigurationChanged = FALSE

C11_Witness ==
    \E i \in Envs :
        /\ Handles(i, {"Create"})
        /\ inv[i].account_id \in inv[i].after_create
        /\ NoFailure(i)
        /\ Responded(i)
        /\ Response(i).Data.ConfigurationChanged = FALSE

C13_MissingStackIdIsFailed ==
    \A i \in Envs :
        (/\ Started(i)
         /\ inv[i].event.RequestType = "Create"
         /\ "StackId" \notin inv[i].event.keys) =>
            /\ inv[i].pc # "raised"
            /\ inv[i].pc = "done" =>
                 /\ Responded(i)
                 /\ Response(i).Status = "FAILED"

\* the publish calls of invocation i that carry the success subject
SuccessNotifications(i) ==
    {k \in Calls(i, "sns") :
        inv[i].log[k].body.Subject = "S3 Block Public Access - Configuration Applied"}

\* C14: in a Create, after the identity lookup failed there is no fetch and
\* no apply; after the fetch failed (with an error other than "not
\* configured") there is no apply; in both cases no success notification is
\* published, every response sent is FAILED, and the invocation returns
\* after exactly one response.
C14_FirstFailureShortCircuits ==
    \A i \in Envs :
        Handles(i, {"Create"}) =>
            /\ Failed(i, "sts") # {} =>
                 /\ Calls(i, "get") = {}
                 /\ Calls(i, "put") = {}
            /\ Failed(i, "get") # {} => Calls(i, "put") = {}
            /\ Failed(i, "sts") \cup Failed(i, "get") # {} =>
                 /\ inv[i].pc \in {"send_sns_notification", "send_response", "done"}
                 /\ SuccessNotifications(i) = {}
                 /\ \A r \in Responses(i) : r.Status = "FAILED"
                 /\ inv[i].pc = "done" => Responded(i)

C14_Witness ==
    \E i \in Envs :
        /\ Handles(i, {"Create"})
        /\ Failed(i, "get") # {}
        /\ Calls(i, "sns") # {}
        /\ Responded(i)
        /\ Response(i).Status = "FAILED"

\* the place of a collaborator in the order of handle_create's calls
Rank(op) ==
    CASE op = "sts" -> 1
      [] op = "get" -> 2
      [] op = "put" -> 3
      [] op = "sns" -> 4
      [] op = "http" -> 5

\* C15: the calls of an invocation are made in the order identity lookup,
\* fetch, apply, notification, callback; the callback PUT is the last call
\* of the invocation, and a Create whose event names a topic has published
\* to it immediately before the callback.
C15_FixedOrder ==
    \A i \in Envs :
        Started(i) =>
            /\ \A j, k \in DOMAIN inv[i].log :
                 j < k => Rank(inv[i].log[j].op) <= Rank(inv[i].log[k].op)
            /\ \A k \in Calls(i, "http") : k = Len(inv[i].log)
            /\ inv[i].pc = "done" => Calls(i, "http") # {}
            /\ \A k \in Calls(i, "get") : k > 1 /\ inv[i].log[k - 1].op = "sts"
            /\ \A k \in Calls(i, "put") : k > 1 /\ inv[i].log[k - 1].op = "get"
            /\ (/\ inv[i].event.RequestType = "Create"
                /\ Truthy(EventTopicArn(inv[i].event))) =>
                   \A k \in Calls(i, "http") : k > 1 /\ inv[i].log[k - 1].op = "sns"

C15_Witness ==
    \E i \in Envs :
        /\ Handles(i, {"Create"})
        /\ Responded(i)
        /\ Len(inv[i].log) = 5
        /\ [k \in 1..5 |-> inv[i].log[k].op] = <<"sts", "get", "put", "sns", "http">>

\* the three forms of the Reason of a FAILED response
IsPermissionReason(reason) ==
    reason = <<"Insufficient permissions", " to modify S3 Block Public Access settings">>

IsProviderReason(reason) == Len(reason) = 2 /\ reason[1] = "AWS API error: "

IsInternalReason(reason) == Len(reason) > 2 /\ reason[1] = "Internal error"

\* C16: a Create that has answered FAILED had exactly one failed step, and
\* the Reason of its response is: the insufficient-permissions message when
\* the step raised a ClientError with code AccessDenied; a text containing
\* the code when it raised a ClientError with another code; "Internal error"
\* followed by the message of the error when it raised anything else.
\* Exactly one of the three forms is produced.
C16_FailureClassification ==
    \A i \in Envs :
        (/\ Handles(i, {"Create"})
         /\ Responded(i)
         /\ Response(i).Status = "FAILED") =>
            /\ Cardinality(FailedSteps(i)) = 1
            /\ \A k \in FailedSteps(i) :
                 LET e == inv[i].log[k].body.Error
                     reason == Response(i).Reason
                 IN  /\ (e.type = "ClientError" /\ e.Code = "AccessDenied") =>
                            IsPermissionReason(reason)
                     /\ (e.type = "ClientError" /\ e.Code # "AccessDenied") =>
                            IsProviderReason(reason) /\ Contains(reason, e.Code)
                     /\ e.type # "ClientError" =>
                            /\ IsInternalReason(reason)
                            /\ SubSeq(reason, 3, Len(reason)) = e.str
                     /\ Cardinality({form \in {"permission", "provider", "internal"} :
                            \/ form = "permission" /\ IsPermissionReason(reason)
                            \/ form = "provider" /\ IsProviderReason(reason)
                            \/ form = "internal" /\ IsInternalReason(reason)}) = 1

C16_Witness ==
    \E i \in Envs :
        /\ Handles(i, {"Create"})
        /\ Responded(i)
        /\ Response(i).Status = "FAILED"
        /\ \E k \in Failed(i, "put") :
             /\ inv[i].log[k].body.Error.type = "ClientError"
             /\ inv[i].log[k].body.Error.Code = "InternalError"
        /\ Response(i).Reason = <<"AWS API error: ", "InternalError">>

\* C17: get_current_bpa_config returns None, raising nothing, for the
\* ClientError NoSuchPublicAccessBlockConfiguration and lets every other
\* error through as it is; None differs from the desired configuration, so
\* a Create whose fetch returned None goes on to apply, and a Create whose
\* fetch raised makes no put, leaves the store as it was and answers FAILED.
C17_NotConfiguredIsAbsent ==
    /\ get_current_bpa_config(ClientError("NoSuchPublicAccessBlockConfiguration"))
           = [raised |-> FALSE, value |-> None]
    /\ \A e \in CollaboratorErrors :
           get_current_bpa_config(e) = [raised |-> TRUE, value |-> e]
    /\ ~configs_equal(None, get_desired_config)
    /\ \A i \in Envs :
         Handles(i, {"Create"}) =>
            /\ Fetched(i, {None}) =>
                 \/ inv[i].pc = "apply_bpa_config"
                 \/ Calls(i, "put") # {}
            /\ (Calls(i, "get") # {} /\ inv[i].before[inv[i].account_id] = None) =>
                 \/ Fetched(i, {None})
                 \/ \E k \in Failed(i, "get") : inv[i].log[k].body.Error \in CollaboratorErrors
            /\ Failed(i, "get") # {} =>
                 /\ Calls(i, "put") = {}
                 /\ store = inv[i].before
                 /\ inv[i].status = "FAILED"
                 /\ inv[i].pc = "done" =>
                      /\ Responded(i)
                      /\ Response(i).Status = "FAILED"

C17_Witness ==
    \E i \in Envs :
        /\ Handles(i, {"Create"})
        /\ Fetched(i, {None})
        /\ Succeeded(i, "put") # {}
        /\ Responded(i)
        /\ Response(i).Status = "SUCCESS"
        /\ Response(i).Data.ConfigurationChanged = TRUE

\* C18: no invocation calls the identity service, reads the store or writes
\* the store more than once, whatever the event and whatever fails; an
\* invocation on an event with every required field publishes at most one
\* notification and makes at most one callback PUT, exactly one once it has
\* ended, and it never ends by raising.
C18_NothingIsRetried ==
    \A i \in Envs :
        /\ Started(i) =>
             /\ Cardinality(Calls(i, "sts")) <= 1
             /\ Cardinality(Calls(i, "get")) <= 1
             /\ Cardinality(Calls(i, "put")) <= 1
        /\ Handles(i, RequestTypes) =>
             /\ Cardinality(Calls(i, "sns")) <= 1
             /\ Cardinality(Calls(i, "http")) <= 1
             /\ inv[i].pc # "raised"
             /\ inv[i].pc = "done" => Cardinality(Calls(i, "http")) = 1

C18_Witness ==
    \E i \in Envs :
        /\ Handles(i, {"Create"})
        /\ inv[i].pc = "done"
        /\ Failed(i, "put") # {}
        /\ Failed(i, "sns") # {}
        /\ Failed(i, "http") # {}
        /\ Len(inv[i].log) = 5

\* C19: for an invocation on an event with every required field, a FAILED
\* response means that the invocation made no successful put and that the
\* store holds what it held when the invocation began; and once a put has
\* succeeded the pending status is SUCCESS, no exception is raised, and the
\* response sent is SUCCESS.
C19_StateUnchangedOnError ==
    \A i \in Envs :
        Handles(i, RequestTypes) =>
            /\ (inv[i].status = "FAILED" \/ \E r \in Responses(i) : r.Status = "FAILED") =>
                 /\ Succeeded(i, "put") = {}
                 /\ store = inv[i].before
            /\ Succeeded(i, "put") # {} =>
                 /\ inv[i].pc \in {"send_sns_notification", "send_response", "done"}
                 /\ inv[i].status = "SUCCESS"
                 /\ \A r \in Responses(i) : r.Status = "SUCCESS"
                 /\ inv[i].pc = "done" => Responded(i)

C19_Witness ==
    \E i \in Envs :
        /\ Handles(i, {"Create"})
        /\ Failed(i, "put") # {}
        /\ Responded(i)
        /\ Response(i).Status = "FAILED"
        /\ ~AllTrue(store[inv[i].account_id])
        /\ store = inv[i].before

\* the flags a configuration leaves off; an absent configuration leaves all off
Unprotected(config) ==
    IF config = None THEN Flags ELSE {f \in Flags : ~config[f]}

\* C20: in every interleaving of two Create invocations on one account, a
\* step never adds to the flags the store leaves off; and when both have
\* ended with no collaborator call failed, both have answered SUCCESS, the
\* store has all four flags true, and, if either began with a store that
\* was not all true, at least one reports ConfigurationChanged = TRUE.
C20_ConcurrentCreates ==
    /\ [][\A a \in Accounts : Unprotected(store'[a]) \subseteq Unprotected(store[a])]_vars
    /\ []((\A i \in Pair : inv[i].pc \in {"done", "raised"} /\ NoFailure(i)) =>
            /\ \A i \in Pair :
                 /\ Responded(i)
                 /\ Response(i).Status = "SUCCESS"
                 /\ AllTrue(store[inv[i].account_id])
            /\ (\E i \in Pair : ~AllTrue(inv[i].before[inv[i].account_id])) =>
                 \E i \in Pair : Response(i).Data.ConfigurationChanged = TRUE)

C20_Witness ==
    /\ \A i \in Pair :
         /\ Responded(i)
         /\ NoFailure(i)
         /\ Response(i).Data.ConfigurationChanged = TRUE
         /\ inv[i].before[inv[i].account_id] = None
    /\ AllTrue(store["123456789012"])

\* the reply leaves out every flag that is not true
OmitsAllButTrue(held) ==
    \/ held = NoBody
    \/ held \in PartialConfigs /\ \A f \in DOMAIN held : held[f]

\* C21: for whatever reply the store gives, get_current_bpa_config returns
\* each flag of the reply as the reply has it and TRUE for each flag the
\* reply leaves out; so the result for a reply that leaves out every flag
\* that is not true, or that has no configuration at all, equals the
\* desired configuration, and a Create whose fetch got such a reply makes
\* no put, leaves the store as it was and, once returned, has answered
\* SUCCESS with four true flags and ConfigurationChanged = FALSE.
C21_OmittedFlagIsTrue ==
    /\ \A a \in Accounts :
         LET held == store[a]
             result == get_current_bpa_config(GetPublicAccessBlock(held))
         IN  /\ held \in PartialConfigs =>
                  /\ ~result.raised
                  /\ \A f \in Flags :
                       result.value[f] = IF f \in DOMAIN held THEN held[f] ELSE TRUE
             /\ OmitsAllButTrue(held) =>
                  /\ ~result.raised
                  /\ configs_equal(result.value, get_desired_config)
    /\ \A i \in Envs :
         (/\ Handles(i, {"Create"})
          /\ Succeeded(i, "get") # {}
          /\ OmitsAllButTrue(inv[i].before[inv[i].account_id])) =>
             /\ inv[i].pc \in {"send_sns_notification", "send_response", "done"}
             /\ Calls(i, "put") = {}
             /\ store = inv[i].before
             /\ inv[i].pc = "done" =>
                  /\ Responded(i)
                  /\ Response(i).Status = "SUCCESS"
                  /\ Response(i).Data.ConfigurationChanged = FALSE
                  /\ \A f \in Flags : Response(i).Data[f] = TRUE

C21_Witness ==
    \E i \in Envs :
        /\ Handles(i, {"Create"})
        /\ Succeeded(i, "get") # {}
        /\ inv[i].before[inv[i].account_id] \in PartialConfigs
        /\ DOMAIN inv[i].before[inv[i].account_id] = {"BlockPublicAcls"}
        /\ Responded(i)
        /\ Response(i).Status = "SUCCESS"
        /\ Response(i).Data.ConfigurationChanged = FALSE

====
